---- MODULE Spec2Model ----
(***************************************************************************)
(* Model of the claim workflow engine (src/test.py) and of the store it    *)
(* keeps its execution state, instance metadata, event log and instance    *)
(* index in.  Python dicts are functions whose DOMAIN is the set of keys   *)
(* present; Python None is the string "None"; timestamps (now_iso) are the *)
(* token "ts" and are left out of events and steps_history entries.        *)
(***************************************************************************)
EXTENDS Integers, Sequences, FiniteSets, TLC

\* ---------------------------------------------------------------- bounds
MaxInst == 2
MaxResumes == 2

\* ------------------------------------------------------------- constants
None == "None"
END == "END"
TS == "ts"
EmptyDict == [k \in {} |-> None]

STATE_NS == "workflow_state"
META_NS == "workflow_meta"
EVENTS_NS == "workflow_events"
INDEX_NS == "workflow_index"
WorkflowName == "ClaimWorkflow"

ValidateRequest == "Validate Request"
GatherClaimInfo == "Gather Claim Info"
IdentifyAccounts == "Identify Accounts & Process Decision"
CancelRequest == "Cancel CWD Request"
HoldRequest == "Hold Request"
ApplySuppression == "Apply Temporary Suppression"
FulfillCase == "Fulfill Case and Detect"

\* ---------------------------------------------------------------- inputs
InstanceIds == 1..MaxInst
Customers == {"C1"}
Starters == {"user_a"}
Actors == {"user_b"}
\* the updates a caller may send with resume: nothing, each key on its own
\* with the values its guard knows and some it does not, and updates that
\* answer several steps at once
Updates ==
    { EmptyDict,
      [validate |-> "yes"], [validate |-> "no"], [validate |-> "maybe"],
      [claim_details |-> "x"], [claim_details |-> ""],
      [process_decision |-> "cancel"], [process_decision |-> "hold"],
      [process_decision |-> "suppress"], [process_decision |-> "defer"],
      [hold_action |-> "resume"], [hold_action |-> "abort"],
      [proceed_fulfill |-> "yes"], [proceed_fulfill |-> "no"],
      [validate |-> "yes", claim_details |-> "x", process_decision |-> "hold"],
      [validate |-> "yes", claim_details |-> "x", process_decision |-> "suppress"],
      [validate |-> "yes", claim_details |-> "x", process_decision |-> "defer"],
      [validate |-> "yes", claim_details |-> "x", process_decision |-> "suppress",
       proceed_fulfill |-> "yes"] }

\* the updates sent through the human-step endpoint
EndpointUpdates == { [validate |-> "yes"], [claim_details |-> "x"] }

\* the updates sent with a resume of an id that was never started
UnknownUpdates == { EmptyDict, [validate |-> "yes"] }

\* ------------------------------------------------------- dict primitives
\* d.get(k): the value under k, None when the key is absent
Get(d, k) == IF k \in DOMAIN d THEN d[k] ELSE None
\* d[k] = v
SetKey(d, k, v) == (k :> v) @@ d
\* d.setdefault(k, v)
SetDefault(d, k, v) == IF k \in DOMAIN d THEN d ELSE SetKey(d, k, v)
\* mutant: the merge keeps the value a key already has
DictUpdateKeepsOld(d, u) == d @@ u
\* mutant: the updates replace the bag instead of being merged into it
DictUpdateReplaces(d, u) == u
\* d.update(u)
DictUpdate(d, u) == u @@ d
\* Python truthiness of a value held in a dict (None and "" are falsy)
Truthy(v) == v # None /\ v # ""

\* a local variable: `e` is evaluated once and F is applied to its value
Bind(e, F(_)) == CHOOSE y \in {F(x) : x \in {e}} : TRUE

\* ------------------------------------------------------------ step graph
ensure_defaults(s) ==
    [s EXCEPT !.meta = SetDefault(SetDefault(@, "status", "in_progress"), "start_time", TS)]

Interrupt(prompt, s) == [interrupt |-> TRUE, value |-> prompt, s |-> s]
Proceed(s) == [interrupt |-> FALSE, value |-> None, s |-> s]

\* a step that needs `key`: marks last_node, interrupts when the key is absent
HumanStep(s, node, key, prompt) ==
    Bind([ensure_defaults(s) EXCEPT !.meta = SetKey(@, "last_node", node)], LAMBDA s1 :
         IF key \notin DOMAIN s1.bag THEN Interrupt(prompt, s1) ELSE Proceed(s1))

\* a terminal step: marks last_node, status, end_time and the result
TerminalStep(s, node, status, result) ==
    Proceed([ensure_defaults(s) EXCEPT
               !.meta = SetKey(SetKey(SetKey(@, "last_node", node), "status", status),
                               "end_time", TS),
               !.bag = SetKey(@, "result", result)])

validate_request(s) ==
    HumanStep(s, ValidateRequest, "validate", "Validate request? (yes/no)")
gather_claim_info(s) ==
    HumanStep(s, GatherClaimInfo, "claim_details", "Provide claim details")
identify_accounts(s) ==
    HumanStep(s, IdentifyAccounts, "process_decision", "Decision? cancel / hold / suppress")
cancel_request(s) ==
    TerminalStep(s, CancelRequest, "aborted", "Workflow aborted.")
hold_request(s) ==
    HumanStep(s, HoldRequest, "hold_action", "Workflow on hold. Command: resume / abort")
apply_suppression(s) ==
    HumanStep(s, ApplySuppression, "proceed_fulfill", "Proceed to fulfill? (yes/no)")
fulfill_case(s) ==
    TerminalStep(s, FulfillCase, "completed", "Fulfilled and detection complete.")

\* g.add_node: the function registered under each node name
NodeFn(node, s) ==
    CASE node = ValidateRequest -> validate_request(s)
      [] node = GatherClaimInfo -> gather_claim_info(s)
      [] node = IdentifyAccounts -> identify_accounts(s)
      [] node = CancelRequest -> cancel_request(s)
      [] node = HoldRequest -> hold_request(s)
      [] node = ApplySuppression -> apply_suppression(s)
      [] node = FulfillCase -> fulfill_case(s)

\* the conditional edges (and the two plain edges to END), applied to the
\* state a node returned without interrupting
\* mutant: every answer but yes is taken for no
EdgeValidateElseCancel(bag) ==
    IF Get(bag, "validate") = "yes" THEN GatherClaimInfo ELSE CancelRequest
EdgeValidate(bag) ==
    IF Get(bag, "validate") = "yes" THEN GatherClaimInfo
    ELSE IF Get(bag, "validate") = "no" THEN CancelRequest
    ELSE END
EdgeGather(bag) ==
    IF Truthy(Get(bag, "claim_details")) THEN IdentifyAccounts ELSE END
EdgeIdentify(bag) ==
    IF Get(bag, "process_decision") = "cancel" THEN CancelRequest
    ELSE IF Get(bag, "process_decision") = "hold" THEN HoldRequest
    ELSE IF Get(bag, "process_decision") = "suppress" THEN ApplySuppression
    ELSE END
\* a variant whose "resume" edge leads back to Identify Accounts
EdgeHoldBackToIdentify(bag) ==
    IF Get(bag, "hold_action") = "resume" THEN IdentifyAccounts
    ELSE IF Get(bag, "hold_action") = "abort" THEN CancelRequest
    ELSE END
EdgeHold(bag) ==
    IF Get(bag, "hold_action") = "resume" THEN ApplySuppression
    ELSE IF Get(bag, "hold_action") = "abort" THEN CancelRequest
    ELSE END
EdgeSuppression(bag) ==
    IF Get(bag, "proceed_fulfill") = "yes" THEN FulfillCase
    ELSE IF Get(bag, "proceed_fulfill") = "no" THEN CancelRequest
    ELSE END
Edge(node, s) ==
    CASE node = ValidateRequest -> EdgeValidate(s.bag)
      [] node = GatherClaimInfo -> EdgeGather(s.bag)
      [] node = IdentifyAccounts -> EdgeIdentify(s.bag)
      [] node = HoldRequest -> EdgeHold(s.bag)
      [] node = ApplySuppression -> EdgeSuppression(s.bag)
      [] node = FulfillCase -> END
      [] node = CancelRequest -> END

\* graph.invoke from `node`: the Interrupt a step returned, or the final state.
\* `path` lists the steps visited.  The steps write into the state they are
\* handed, so `s` of the result is also what the caller's `state` holds.
RECURSIVE Traverse(_, _, _)
Traverse(node, s, path) ==
    Bind(NodeFn(node, s), LAMBDA r :
         IF r.interrupt
         THEN [interrupt |-> TRUE, value |-> r.value, s |-> r.s, path |-> Append(path, node)]
         ELSE IF Edge(node, r.s) = END
              THEN [interrupt |-> FALSE, value |-> None, s |-> r.s,
                    path |-> Append(path, node)]
              ELSE Traverse(Edge(node, r.s), r.s, Append(path, node)))

\* mutant: the run continues from the step the instance stopped at
GraphInvokeFromLastNode(s) ==
    Traverse(IF Truthy(Get(s.meta, "last_node")) THEN s.meta["last_node"] ELSE ValidateRequest,
             s, <<>>)
\* set_entry_point("Validate Request")
GraphInvoke(s) == Traverse(ValidateRequest, s, <<>>)


\* ----------------------------------------------------------------- store
\* InMemoryStore: one dict per namespace; get of an absent key gives nothing
Has(st, ns, key) == key \in DOMAIN st[ns]
StoreGet(st, ns, key) == st[ns][key]
StorePut(st, ns, key, value) == [st EXCEPT ![ns] = SetKey(@, key, value)]
EmptyStore ==
    [workflow_state |-> EmptyDict, workflow_meta |-> EmptyDict,
     workflow_events |-> EmptyDict, workflow_index |-> EmptyDict]

Range(seq) == {seq[i] : i \in 1..Len(seq)}
Last(seq) == seq[Len(seq)]

\* self._unwrap(self.store.get(INDEX_NS, "instances")) or []
IndexList(st) ==
    IF Has(st, INDEX_NS, "instances") THEN StoreGet(st, INDEX_NS, "instances") ELSE <<>>
\* self._unwrap(self.store.get(EVENTS_NS, instance_id)) or []
history(st, instance_id) ==
    IF Has(st, EVENTS_NS, instance_id) THEN StoreGet(st, EVENTS_NS, instance_id) ELSE <<>>

\* _add_to_index after its read: `idx` is the list the read returned
IndexPut(st, instance_id, idx) ==
    IF instance_id \notin Range(idx)
    THEN StorePut(st, INDEX_NS, "instances", Append(idx, instance_id))
    ELSE st
add_to_index(st, instance_id) == IndexPut(st, instance_id, IndexList(st))

\* _append_event after its read: `events` is the list the read returned
EventsPut(st, instance_id, events, event, node, status, actor, data) ==
    StorePut(st, EVENTS_NS, instance_id,
             Append(events,
                    [instance_id |-> instance_id, event |-> event, node |-> node,
                     status |-> status, actor |-> actor, data |-> data]))
append_event(st, instance_id, event, node, status, actor, data) ==
    EventsPut(st, instance_id, history(st, instance_id), event, node, status, actor, data)

put_meta(st, m) == StorePut(st, META_NS, m.instance_id, m)

\* the steps_history entry appended on a node change
HistoryEntry(node, actor, status) == [node |-> node, actor |-> actor, status |-> status]
\* mutant: an entry is appended whether or not the node changed
StepsHistoryAlwaysAppends(h, last_node, actor, status) ==
    IF Truthy(last_node) THEN Append(h, HistoryEntry(last_node, actor, status)) ELSE h
StepsHistoryAfter(h, last_node, actor, status) ==
    IF Truthy(last_node) /\ last_node # (IF Len(h) > 0 THEN Last(h).node ELSE None)
    THEN Append(h, HistoryEntry(last_node, actor, status))
    ELSE h

\* a variant that appends to steps_history but leaves last_node as it was
ProjectMetaKeepsLastNode(m, actor, s) ==
    Bind(Get(s.meta, "last_node"), LAMBDA last_node :
    Bind(IF "status" \in DOMAIN s.meta THEN s.meta["status"] ELSE m.status, LAMBDA status :
         [m EXCEPT
            !.last_actor = actor,
            !.status = status,
            !.steps_history = StepsHistoryAfter(@, last_node, actor, status)]))
\* the fields _update_meta_from_state copies from the state's meta into m
ProjectMeta(m, actor, s) ==
    Bind(Get(s.meta, "last_node"), LAMBDA last_node :
    Bind(IF "status" \in DOMAIN s.meta THEN s.meta["status"] ELSE m.status, LAMBDA status :
         [m EXCEPT
            !.last_actor = actor,
            !.last_node = IF Truthy(last_node) THEN last_node ELSE @,
            !.start_time = IF Truthy(Get(s.meta, "start_time")) /\ ~Truthy(@)
                           THEN s.meta["start_time"] ELSE @,
            !.end_time = IF Truthy(Get(s.meta, "end_time")) THEN s.meta["end_time"] ELSE @,
            !.status = status,
            !.steps_history = StepsHistoryAfter(@, last_node, actor, status)]))

\* _update_meta_from_state: err when the instance has no metadata, else the
\* store with the projected metadata written and the metadata object `m`
update_meta_from_state(st, instance_id, actor, s) ==
    IF ~Has(st, META_NS, instance_id)
    THEN [err |-> TRUE, st |-> st, m |-> EmptyDict]
    ELSE Bind(ProjectMeta(StoreGet(st, META_NS, instance_id), actor, s), LAMBDA m :
              [err |-> FALSE, st |-> put_meta(st, m), m |-> m])


\* ---------------------------------------------------------------- engine
Terminal == {"completed", "aborted"}

\* a call that raised: nothing is returned
Raised(st, error) == [st |-> st, out |-> [status |-> "error", error |-> error], path |-> <<>>]

\* if not s["meta"].get("last_node"): s["meta"]["last_node"] = "Validate Request"
DefaultLastNode(s) ==
    IF ~Truthy(Get(s.meta, "last_node"))
    THEN [s EXCEPT !.meta = SetKey(@, "last_node", ValidateRequest)]
    ELSE s

\* _run.update_and_return: projects the state into the metadata once more,
\* writes it and hands back the payload
update_and_return(st, instance_id, actor, payload, state_for_meta, path) ==
    Bind(update_meta_from_state(st, instance_id, actor, state_for_meta), LAMBDA u :
         IF u.err THEN Raised(st, "Missing meta")
         ELSE [st |-> put_meta(u.st, u.m), out |-> payload, path |-> path])

\* _run, the branch taken when graph.invoke returned an Interrupt
RunPaused(st, instance_id, actor, result) ==
    Bind(StorePut(st, STATE_NS, instance_id, result.s), LAMBDA st1 :
    Bind(DefaultLastNode(result.s), LAMBDA state :
    Bind(update_meta_from_state(st1, instance_id, actor, state), LAMBDA u :
         IF u.err THEN Raised(st1, "Missing meta")
         ELSE
    Bind(IF u.m.status \notin Terminal THEN [u.m EXCEPT !.status = "paused"] ELSE u.m,
         LAMBDA meta :
    Bind(IF u.m.status \notin Terminal THEN put_meta(u.st, meta) ELSE u.st, LAMBDA st2 :
    Bind(append_event(st2, instance_id, "paused", state.meta["last_node"], meta.status,
                      actor, [prompt |-> result.value]), LAMBDA st3 :
         update_and_return(st3, instance_id, actor,
             [status |-> "paused", prompt |-> result.value, instance_id |-> instance_id],
             state, result.path)))))))

\* the status branch of _run: completed / aborted / anything else
OutcomeOf(status) ==
    IF status = "completed" THEN "completed"
    ELSE IF status = "aborted" THEN "aborted"
    ELSE "in_progress"
\* mutant: every run that does not pause is logged as progressed
EventOfAlwaysProgressed(outcome) == "progressed"
EventOf(outcome) == IF outcome = "in_progress" THEN "progressed" ELSE outcome
\* the summary returned and the event data logged for an outcome
Payload(outcome, node, bagResult, instance_id) ==
    IF outcome = "in_progress"
    THEN [status |-> outcome, node |-> node, instance_id |-> instance_id]
    ELSE [status |-> outcome, node |-> node, result |-> bagResult, instance_id |-> instance_id]
EventData(outcome, bagResult) ==
    IF outcome = "in_progress" THEN EmptyDict ELSE [result |-> bagResult]

\* _run, the branch taken when graph.invoke returned the final state
RunState(st, instance_id, actor, result) ==
    Bind(StorePut(st, STATE_NS, instance_id, result.s), LAMBDA st1 :
    Bind(DefaultLastNode(result.s), LAMBDA res :
    Bind(update_meta_from_state(st1, instance_id, actor, res), LAMBDA u :
         IF u.err THEN Raised(st1, "Missing meta")
         ELSE
    Bind(res.meta["last_node"], LAMBDA node :
    Bind(OutcomeOf(IF "status" \in DOMAIN res.meta THEN res.meta["status"] ELSE u.m.status),
         LAMBDA outcome :
    Bind([u.m EXCEPT !.status = outcome], LAMBDA meta :
    Bind(put_meta(u.st, meta), LAMBDA st2 :
    Bind(append_event(st2, instance_id, EventOf(outcome), node, meta.status, actor,
                      EventData(outcome, Get(res.bag, "result"))), LAMBDA st3 :
         update_and_return(st3, instance_id, actor,
             Payload(outcome, node, Get(res.bag, "result"), instance_id),
             res, result.path)))))))))

\* mutant: the metadata is looked up before the state is written
run_meta_first(st, instance_id, state, actor) ==
    IF ~Has(st, META_NS, instance_id)
    THEN Raised(st, "Missing meta")
    ELSE Bind(GraphInvoke(state), LAMBDA result :
              IF result.interrupt
              THEN RunPaused(st, instance_id, actor, result)
              ELSE RunState(st, instance_id, actor, result))
\* Engine._run
run(st, instance_id, state, actor) ==
    Bind(GraphInvoke(state), LAMBDA result :
         IF result.interrupt
         THEN RunPaused(st, instance_id, actor, result)
         ELSE RunState(st, instance_id, actor, result))

\* mutant: the new execution state is created with status paused
InitialStatePaused(instance_id, customer_id) ==
    [instance_id |-> instance_id, customer_id |-> customer_id,
     workflow_name |-> WorkflowName, bag |-> EmptyDict,
     meta |-> [status |-> "paused", start_time |-> TS]]
\* the state and the metadata Engine.start builds for a new instance
InitialState(instance_id, customer_id) ==
    [instance_id |-> instance_id, customer_id |-> customer_id,
     workflow_name |-> WorkflowName, bag |-> EmptyDict,
     meta |-> [status |-> "in_progress", start_time |-> TS]]
InitialMeta(instance_id, customer_id, started_by) ==
    [instance_id |-> instance_id, customer_id |-> customer_id,
     workflow_name |-> WorkflowName, started_by |-> started_by,
     last_actor |-> started_by, status |-> "in_progress", last_node |-> None,
     start_time |-> TS, end_time |-> None, steps_history |-> <<>>]

\* Engine.start for the fresh id `instance_id`, in the three parts its calls
\* on the shared index separate: persist, index, log and run
StartPersist(st, instance_id, customer_id, started_by) ==
    Bind(StorePut(st, STATE_NS, instance_id, InitialState(instance_id, customer_id)),
         LAMBDA st1 : put_meta(st1, InitialMeta(instance_id, customer_id, started_by)))
StartRun(st, instance_id, customer_id, started_by) ==
    Bind(append_event(st, instance_id, "created", None,
                      InitialMeta(instance_id, customer_id, started_by).status,
                      started_by, [customer_id |-> customer_id]), LAMBDA st1 :
         run(st1, instance_id, InitialState(instance_id, customer_id), started_by))
start(st, instance_id, customer_id, started_by) ==
    Bind(StartPersist(st, instance_id, customer_id, started_by), LAMBDA st1 :
    Bind(add_to_index(st1, instance_id), LAMBDA st2 :
         StartRun(st2, instance_id, customer_id, started_by)))

\* mutant: the resume_command event is logged before the state is looked up
resume_logs_first(st, instance_id, actor, updates) ==
    Bind(append_event(st, instance_id, "resume_command", None, "in_progress", actor,
                      [updates |-> updates]), LAMBDA logged :
         IF ~Has(st, STATE_NS, instance_id)
         THEN Raised(logged, "No workflow found")
         ELSE
    Bind([StoreGet(st, STATE_NS, instance_id) EXCEPT !.bag = DictUpdate(@, updates)],
         LAMBDA state :
    Bind(StorePut(logged, STATE_NS, instance_id, state), LAMBDA st1 :
         run(st1, instance_id, state, actor))))
\* Engine.resume
resume(st, instance_id, actor, updates) ==
    IF ~Has(st, STATE_NS, instance_id)
    THEN Raised(st, "No workflow found")
    ELSE
    Bind([StoreGet(st, STATE_NS, instance_id) EXCEPT !.bag = DictUpdate(@, updates)],
         LAMBDA state :
    Bind(StorePut(st, STATE_NS, instance_id, state), LAMBDA st1 :
    Bind(append_event(st1, instance_id, "resume_command", Get(state.meta, "last_node"),
                      "in_progress", actor, [updates |-> updates]), LAMBDA st2 :
         run(st2, instance_id, state, actor))))

\* ------------------------------------------------------------------- api
\* allowed_steps of api.py
AllowedSteps == {GatherClaimInfo, ValidateRequest}

\* an HTTPException: the request is rejected, the engine is not called
Rejected(st, code) ==
    [http |-> code, st |-> st, out |-> [status |-> "error", error |-> "rejected"],
     path |-> <<>>]
\* the endpoint handing the request to engine.resume
Forwarded(st, instance_id, actor, updates) ==
    Bind(resume(st, instance_id, actor, updates), LAMBDA r :
         [http |-> IF r.out.status = "error" THEN 500 ELSE 200,
          st |-> r.st, out |-> r.out, path |-> r.path])
\* mutant: the endpoint forwards whatever step the instance is at
provide_human_input_any_step(st, instance_id, actor, updates) ==
    IF ~Has(st, META_NS, instance_id)
    THEN Rejected(st, 404)
    ELSE Forwarded(st, instance_id, actor, updates)
\* POST /workflow/{instance_id}/human-step
provide_human_input(st, instance_id, actor, updates) ==
    IF ~Has(st, META_NS, instance_id)
    THEN Rejected(st, 404)
    ELSE IF StoreGet(st, META_NS, instance_id).last_node \notin AllowedSteps
         THEN Rejected(st, 400)
         ELSE Forwarded(st, instance_id, actor, updates)

\* Engine.list_instances(status=...): the indexed instances that have
\* metadata with that status (as a set: the order is by timestamp)
list_instances(st, status) ==
    { id \in Range(IndexList(st)) :
        Has(st, META_NS, id) /\ StoreGet(st, META_NS, id).status = status }
\* GET /workflow/pending-human
pending_human_steps(st) ==
    { id \in list_instances(st, "paused") :
        StoreGet(st, META_NS, id).last_node \in AllowedSteps }

\* --------------------------------------------------------- state machine
VARIABLES
    store,      \* the InMemoryStore shared by every call
    ret,        \* the call that returned last: its arguments and its outcome
    lastOut,    \* per instance, what the last call on it returned
    resumes,    \* how many resume calls found their instance so far
    starting,   \* the start calls in progress, by the id they allocated:
                \* where each is and the index list it read
    inOrder,    \* per instance, whether every resume so far answered exactly
                \* the step the instance was paused at
    resuming,   \* the resume calls in progress, by the thread that makes them:
                \* where each is and the values it holds in local variables
    traversal   \* one pass over the step graph taken a step at a time: the
                \* step it is at, the state, the steps visited, how it ended

vars == <<store, ret, lastOut, resumes, starting, inOrder, resuming, traversal>>

NoCall == [op |-> "none"]
CallRecord(op, instance_id, actor, updates, r) ==
    [op |-> op, instance_id |-> instance_id, actor |-> actor, updates |-> updates,
     out |-> r.out, path |-> r.path]

NoTraversal == [end |-> "idle"]

\* the engine after construction, no call made yet
Idle ==
    /\ store = EmptyStore
    /\ ret = NoCall
    /\ lastOut = EmptyDict
    /\ resumes = 0
    /\ starting = EmptyDict
    /\ inOrder = EmptyDict
    /\ resuming = EmptyDict

Init == Idle /\ traversal = NoTraversal

\* the key each step asks for, and the values its guard matches
HumanSteps == {ValidateRequest, GatherClaimInfo, IdentifyAccounts, HoldRequest, ApplySuppression}
Required(node) ==
    CASE node = ValidateRequest -> "validate"
      [] node = GatherClaimInfo -> "claim_details"
      [] node = IdentifyAccounts -> "process_decision"
      [] node = HoldRequest -> "hold_action"
      [] node = ApplySuppression -> "proceed_fulfill"
\* the values the transition table lists for a step (any value for the
\* step that only asks for its key to be present)
Listed(node, v) ==
    CASE node = ValidateRequest -> v \in {"yes", "no"}
      [] node = GatherClaimInfo -> TRUE
      [] node = IdentifyAccounts -> v \in {"cancel", "hold", "suppress"}
      [] node = HoldRequest -> v \in {"resume", "abort"}
      [] node = ApplySuppression -> v \in {"yes", "no"}
\* updates answers the step the instance is paused at, and nothing else
AnswersPause(st, out, instance_id, updates) ==
    /\ out.status = "paused"
    /\ LET n == StoreGet(st, META_NS, instance_id).last_node
       IN  /\ n \in HumanSteps
           /\ DOMAIN updates = {Required(n)}
           /\ Listed(n, updates[Required(n)])

\* uuid.uuid4(): an id no instance has yet
FreshId(st) == Cardinality(DOMAIN st[STATE_NS]) + 1

\* ---- calls that run one at a time
Start(customer_id, started_by) ==
    /\ FreshId(store) <= MaxInst
    /\ \E instance_id \in {FreshId(store)} :
       \E r \in {start(store, instance_id, customer_id, started_by)} :
           /\ store' = r.st
           /\ ret' = CallRecord("start", instance_id, started_by, EmptyDict, r)
           /\ lastOut' = SetKey(lastOut, instance_id, r.out)
           /\ inOrder' = SetKey(inOrder, instance_id, TRUE)
    /\ UNCHANGED <<resumes, starting, resuming, traversal>>

Resume(instance_id, actor, updates) ==
    /\ resumes < MaxResumes
    /\ \E r \in {resume(store, instance_id, actor, updates)} :
           /\ store' = r.st
           /\ ret' = CallRecord("resume", instance_id, actor, updates, r)
           /\ IF Has(store, STATE_NS, instance_id)
              THEN /\ lastOut' = SetKey(lastOut, instance_id, r.out)
                   /\ resumes' = resumes + 1
                   /\ inOrder' = SetKey(inOrder, instance_id,
                                        /\ instance_id \in DOMAIN inOrder
                                        /\ inOrder[instance_id]
                                        /\ AnswersPause(store, lastOut[instance_id],
                                                        instance_id, updates))
              ELSE UNCHANGED <<lastOut, resumes, inOrder>>
    /\ UNCHANGED <<starting, resuming, traversal>>

\* a request to the human-step endpoint, accepted or rejected
HumanStepRequest(instance_id, actor, updates) ==
    /\ resumes < MaxResumes
    /\ \E r \in {provide_human_input(store, instance_id, actor, updates)} :
           /\ store' = r.st
           /\ ret' = [op |-> "human_step", instance_id |-> instance_id, actor |-> actor,
                      updates |-> updates, out |-> r.out, path |-> r.path, http |-> r.http]
           /\ IF r.http = 200
              THEN /\ lastOut' = SetKey(lastOut, instance_id, r.out)
                   /\ resumes' = resumes + 1
                   /\ inOrder' = SetKey(inOrder, instance_id,
                                        /\ inOrder[instance_id]
                                        /\ AnswersPause(store, lastOut[instance_id],
                                                        instance_id, updates))
              ELSE UNCHANGED <<lastOut, resumes, inOrder>>
    /\ UNCHANGED <<starting, resuming, traversal>>

Next ==
    \/ \E c \in Customers, u \in Starters : Start(c, u)
    \/ \E i \in DOMAIN store[STATE_NS], a \in Actors, u \in Updates : Resume(i, a, u)
    \/ \E i \in InstanceIds \ DOMAIN store[STATE_NS], a \in Actors, u \in UnknownUpdates :
          Resume(i, a, u)
    \/ \E i \in InstanceIds, a \in Actors, u \in EndpointUpdates :
          HumanStepRequest(i, a, u)

Spec == Init /\ [][Next]_vars

\* ---- start calls that overlap: each call on the store is a step of its own
Remove(d, k) == [x \in DOMAIN d \ {k} |-> d[x]]

\* lines 251-272: allocate the id, persist the state
StartBegin(customer_id, started_by) ==
    /\ FreshId(store) <= MaxInst
    /\ \E instance_id \in {FreshId(store)} :
           /\ store' = StorePut(store, STATE_NS, instance_id,
                                InitialState(instance_id, customer_id))
           /\ starting' = SetKey(starting, instance_id,
                                 [pc |-> "meta_put", customer_id |-> customer_id,
                                  started_by |-> started_by, idx |-> <<>>])
    /\ UNCHANGED <<ret, lastOut, resumes, inOrder, resuming, traversal>>

\* line 273: persist the metadata
StartMetaPut(instance_id) ==
    /\ instance_id \in DOMAIN starting
    /\ starting[instance_id].pc = "meta_put"
    /\ \E c \in {starting[instance_id]} :
           store' = put_meta(store, InitialMeta(instance_id, c.customer_id, c.started_by))
    /\ starting' = [starting EXCEPT ![instance_id].pc = "index_get"]
    /\ UNCHANGED <<ret, lastOut, resumes, inOrder, resuming, traversal>>

\* line 185: read the index list
StartIndexGet(instance_id) ==
    /\ instance_id \in DOMAIN starting
    /\ starting[instance_id].pc = "index_get"
    /\ starting' = [starting EXCEPT ![instance_id].pc = "index_put",
                                    ![instance_id].idx = IndexList(store)]
    /\ UNCHANGED <<store, ret, lastOut, resumes, inOrder, resuming, traversal>>

\* lines 186-188: append to the list that was read and write it back
StartIndexPut(instance_id) ==
    /\ instance_id \in DOMAIN starting
    /\ starting[instance_id].pc = "index_put"
    /\ store' = IndexPut(store, instance_id, starting[instance_id].idx)
    /\ starting' = [starting EXCEPT ![instance_id].pc = "run"]
    /\ UNCHANGED <<ret, lastOut, resumes, inOrder, resuming, traversal>>

\* lines 275-278: log `created`, run, return
StartReturn(instance_id) ==
    /\ instance_id \in DOMAIN starting
    /\ starting[instance_id].pc = "run"
    /\ \E c \in {starting[instance_id]} :
       \E r \in {StartRun(store, instance_id, c.customer_id, c.started_by)} :
           /\ store' = r.st
           /\ ret' = CallRecord("start", instance_id, c.started_by, EmptyDict, r)
           /\ lastOut' = SetKey(lastOut, instance_id, r.out)
           /\ inOrder' = SetKey(inOrder, instance_id, instance_id \notin DOMAIN lastOut)
    /\ starting' = Remove(starting, instance_id)
    /\ UNCHANGED <<resumes, resuming, traversal>>

\* what a caller sends for an instance it knows: the answers to the first
\* two prompts at once
KnownUpdates == { [validate |-> "yes", claim_details |-> "x"] }
\* the updates the resume form is filled with
DefaultUpdates == { [validate |-> "yes"] }

\* the ids a caller can have: returned by start or listed in the index
KnownIds == (DOMAIN store[STATE_NS] \ DOMAIN starting) \cup Range(IndexList(store))

NextConc ==
    \/ \E c \in Customers, u \in Starters : StartBegin(c, u)
    \/ \E i \in InstanceIds : StartMetaPut(i)
    \/ \E i \in InstanceIds : StartIndexGet(i)
    \/ \E i \in InstanceIds : StartIndexPut(i)
    \/ \E i \in InstanceIds : StartReturn(i)
    \/ \E i \in KnownIds, a \in Actors, u \in KnownUpdates : Resume(i, a, u)
    \* a caller that passes the id of an instance whose start has not returned
    \/ \E i \in DOMAIN starting, a \in Actors, u \in DefaultUpdates : Resume(i, a, u)

SpecConc == Init /\ [][NextConc]_vars


\* ---- resume calls that overlap: each call on the store is a step of its own
\* the updates sent by the callers that race
RaceUpdates == { [validate |-> "no"], [claim_details |-> "x"] }

\* the local variables of a resume call after line 288: the bag it read and
\* the state with the updates merged in
ResumeCall(st, instance_id, actor, updates) ==
    [pc |-> "state_put", instance_id |-> instance_id, actor |-> actor, updates |-> updates,
     read |-> StoreGet(st, STATE_NS, instance_id).bag,
     state |-> [StoreGet(st, STATE_NS, instance_id) EXCEPT !.bag = DictUpdate(@, updates)],
     interrupt |-> FALSE, value |-> None, path |-> <<>>,
     events |-> <<>>, meta |-> EmptyDict, out |-> EmptyDict]

\* mutant: the write merges the updates into the bag the store holds now
StatePutMergesAgain(st, call) ==
    StorePut(st, STATE_NS, call.instance_id,
             [call.state EXCEPT !.bag = DictUpdate(StoreGet(st, STATE_NS, call.instance_id).bag,
                                                   call.updates)])
\* self.store.put(self.STATE_NS, instance_id, state)
StatePut(st, call) == StorePut(st, STATE_NS, call.instance_id, call.state)

\* _run after _update_meta_from_state: the status it assigns to the
\* metadata object and the summary it is going to return
OutcomeMeta(call, m) ==
    IF call.interrupt
    THEN IF m.status \notin Terminal THEN [m EXCEPT !.status = "paused"] ELSE m
    ELSE [m EXCEPT !.status = OutcomeOf(IF "status" \in DOMAIN call.state.meta
                                        THEN call.state.meta["status"] ELSE m.status)]
OutcomePayload(call, m) ==
    IF call.interrupt
    THEN [status |-> "paused", prompt |-> call.value, instance_id |-> call.instance_id]
    ELSE Payload(OutcomeMeta(call, m).status, call.state.meta["last_node"],
                 Get(call.state.bag, "result"), call.instance_id)
\* the outcome event _run appends after reading `events`
OutcomeEventPut(st, call) ==
    IF call.interrupt
    THEN EventsPut(st, call.instance_id, call.events, "paused",
                   call.state.meta["last_node"], call.meta.status, call.actor,
                   [prompt |-> call.value])
    ELSE EventsPut(st, call.instance_id, call.events, EventOf(call.out.status),
                   call.state.meta["last_node"], call.meta.status, call.actor,
                   EventData(call.out.status, Get(call.state.bag, "result")))

At(c, pc) == c \in DOMAIN resuming /\ resuming[c].pc = pc

\* the threads that call the engine: the UI script and the API server
Callers == {"ui", "api"}

\* Each step below ends where the call is about to write what it has read,
\* the places another call can get in between a read and its write.

\* lines 281-288: read the state, merge the updates into the local copy
ResumeGet(c, instance_id, actor, updates) ==
    /\ resumes < MaxResumes
    /\ c \notin DOMAIN resuming
    /\ Has(store, STATE_NS, instance_id)
    /\ resuming' = SetKey(resuming, c, ResumeCall(store, instance_id, actor, updates))
    /\ resumes' = resumes + 1
    /\ UNCHANGED <<store, ret, lastOut, starting, inOrder, traversal>>

\* lines 291-300: write the merged state, append resume_command
ResumePut(c) ==
    /\ At(c, "state_put")
    /\ \E call \in {resuming[c]} :
       \E st1 \in {StatePut(store, call)} :
           store' = append_event(st1, call.instance_id, "resume_command",
                                 Get(call.state.meta, "last_node"), "in_progress",
                                 call.actor, [updates |-> call.updates])
    /\ resuming' = [resuming EXCEPT ![c].pc = "invoke"]
    /\ UNCHANGED <<ret, lastOut, resumes, starting, inOrder, traversal>>

\* lines 308-315 / 337-339 and 221-244: traverse the graph, write the state
\* it left, read the metadata and project the state into it; lines 317-318 /
\* 345 / 359 / 373 assign the status. Without metadata the call raises.
RunInvoke(c) ==
    /\ At(c, "invoke")
    /\ \E call \in {resuming[c]} :
       \E result \in {GraphInvoke(call.state)} :
       \E ran \in {[call EXCEPT !.state = DefaultLastNode(result.s),
                                !.interrupt = result.interrupt,
                                !.value = result.value,
                                !.path = result.path]} :
           /\ store' = StorePut(store, STATE_NS, call.instance_id, result.s)
           /\ IF Has(store, META_NS, call.instance_id)
              THEN \E m \in {ProjectMeta(StoreGet(store, META_NS, call.instance_id),
                                         call.actor, ran.state)} :
                       /\ resuming' = SetKey(resuming, c,
                                             [ran EXCEPT !.pc = "meta_put",
                                                         !.meta = OutcomeMeta(ran, m),
                                                         !.out = OutcomePayload(ran, m)])
                       /\ UNCHANGED <<ret, lastOut, inOrder>>
              ELSE /\ resuming' = Remove(resuming, c)
                   /\ ret' = CallRecord("resume", call.instance_id, call.actor,
                                        call.updates, Raised(store, "Missing meta"))
                   /\ lastOut' = SetKey(lastOut, call.instance_id, ret'.out)
                   /\ inOrder' = SetKey(inOrder, call.instance_id, FALSE)
    /\ UNCHANGED <<resumes, starting, traversal>>

\* lines 246 and 319 / 346 / 360 / 374, then line 200: write the metadata
\* object, read the event list
RunMetaPut(c) ==
    /\ At(c, "meta_put")
    /\ store' = put_meta(store, resuming[c].meta)
    /\ resuming' = [resuming EXCEPT ![c].pc = "event_put",
                                    ![c].events = history(store, resuming[c].instance_id)]
    /\ UNCHANGED <<ret, lastOut, resumes, starting, inOrder, traversal>>

\* lines 201-210, then update_and_return, lines 304 and 221-244: append the
\* outcome event to the list read and write it back, read the metadata and
\* project the state once more
RunEventPut(c) ==
    /\ At(c, "event_put")
    /\ \E call \in {resuming[c]} :
           /\ store' = OutcomeEventPut(store, call)
           /\ resuming' = [resuming EXCEPT
                             ![c].pc = "return_put",
                             ![c].meta = ProjectMeta(StoreGet(store, META_NS,
                                                              call.instance_id),
                                                     call.actor, call.state)]
    /\ UNCHANGED <<ret, lastOut, resumes, starting, inOrder, traversal>>

\* update_and_return, lines 246 and 305-306: write the metadata and return
ReturnMetaPut(c) ==
    /\ At(c, "return_put")
    /\ \E call \in {resuming[c]} :
           /\ store' = put_meta(store, call.meta)
           /\ ret' = CallRecord("resume", call.instance_id, call.actor, call.updates,
                                [out |-> call.out, path |-> call.path])
           /\ lastOut' = SetKey(lastOut, call.instance_id, call.out)
           /\ inOrder' = SetKey(inOrder, call.instance_id, FALSE)
    /\ resuming' = Remove(resuming, c)
    /\ UNCHANGED <<resumes, starting, traversal>>

\* provide_human_input on the API thread, api.py lines 14-20: read the
\* metadata and reject, or go on to line 22 holding the request
EndpointCheck(c, instance_id, actor, updates) ==
    /\ resumes < MaxResumes
    /\ c \notin DOMAIN resuming
    /\ \E code \in {IF ~Has(store, META_NS, instance_id) THEN 404
                    ELSE IF StoreGet(store, META_NS, instance_id).last_node \notin AllowedSteps
                    THEN 400 ELSE 200} :
          IF code = 200
          THEN /\ resuming' = SetKey(resuming, c,
                                     [pc |-> "checked", instance_id |-> instance_id,
                                      actor |-> actor, updates |-> updates])
               /\ resumes' = resumes + 1
               /\ UNCHANGED ret
          ELSE /\ ret' = [op |-> "human_step", instance_id |-> instance_id,
                          actor |-> actor, updates |-> updates,
                          out |-> Rejected(store, code).out, path |-> <<>>, http |-> code]
               /\ UNCHANGED <<resuming, resumes>>
    /\ UNCHANGED <<store, lastOut, starting, inOrder, traversal>>

\* api.py line 22 into test.py lines 281-288: engine.resume reads the state
\* and merges the request's updates into the local copy
EndpointResume(c) ==
    /\ At(c, "checked")
    /\ \E req \in {resuming[c]} :
          IF Has(store, STATE_NS, req.instance_id)
          THEN /\ resuming' = SetKey(resuming, c,
                                     ResumeCall(store, req.instance_id, req.actor,
                                                req.updates))
               /\ UNCHANGED <<ret, lastOut, inOrder>>
          ELSE /\ resuming' = Remove(resuming, c)
               /\ ret' = CallRecord("resume", req.instance_id, req.actor, req.updates,
                                    Raised(store, "No workflow found"))
               /\ UNCHANGED <<lastOut, inOrder>>
    /\ UNCHANGED <<store, resumes, starting, traversal>>

NextRace ==
    \/ \E c \in Customers, u \in Starters : Start(c, u)
    \/ \E c \in Callers, i \in DOMAIN store[STATE_NS], a \in Actors, u \in RaceUpdates :
          ResumeGet(c, i, a, u)
    \/ \E i \in InstanceIds, a \in Actors, u \in RaceUpdates : EndpointCheck("api", i, a, u)
    \/ EndpointResume("api")
    \/ \E c \in Callers : ResumePut(c)
    \/ \E c \in Callers : RunInvoke(c)
    \/ \E c \in Callers : RunMetaPut(c)
    \/ \E c \in Callers : RunEventPut(c)
    \/ \E c \in Callers : ReturnMetaPut(c)

SpecRace == Init /\ [][NextRace]_vars


\* ---- one pass over the step graph, a step at a time
\* the values a bag can hold under each key: those the guards know and one
\* they do not
KeyValues ==
    [validate |-> {"yes", "no", "maybe"},
     claim_details |-> {"x", ""},
     process_decision |-> {"cancel", "hold", "suppress", "defer"},
     hold_action |-> {"resume", "abort", "wait"},
     proceed_fulfill |-> {"yes", "no", "later"}]
AllValues == UNION {KeyValues[k] : k \in DOMAIN KeyValues}
Bags ==
    UNION { {b \in [K -> AllValues] : \A k \in K : b[k] \in KeyValues[k]} :
            K \in SUBSET DOMAIN KeyValues }

\* graph.invoke(state) entering at the entry point
InitWalk ==
    /\ Idle
    /\ \E b \in Bags :
         traversal = [end |-> "running", node |-> ValidateRequest, path |-> <<>>,
                      s |-> [InitialState(1, "C1") EXCEPT !.bag = b]]

\* one step of the pass: run the step function, then follow its edge
WalkStep ==
    /\ traversal.end = "running"
    /\ \E r \in {NodeFn(traversal.node, traversal.s)} :
       \E next \in {IF r.interrupt THEN END ELSE Edge(traversal.node, r.s)} :
           traversal' =
               [end |-> IF r.interrupt THEN "paused"
                        ELSE IF next # END THEN "running"
                        ELSE IF traversal.node \in {CancelRequest, FulfillCase}
                             THEN "terminal" ELSE "unmatched",
                node |-> IF next = END THEN traversal.node ELSE next,
                path |-> Append(traversal.path, traversal.node),
                s |-> r.s]
    /\ UNCHANGED <<store, ret, lastOut, resumes, starting, inOrder, resuming>>

\* the graph runner keeps stepping until the pass ends
SpecWalk == InitWalk /\ [][WalkStep]_vars /\ WF_vars(WalkStep)

\* ================================================================ claims
\* the prompt each step pauses with
PromptOf(node) ==
    CASE node = ValidateRequest -> "Validate request? (yes/no)"
      [] node = GatherClaimInfo -> "Provide claim details"
      [] node = IdentifyAccounts -> "Decision? cancel / hold / suppress"
      [] node = HoldRequest -> "Workflow on hold. Command: resume / abort"
      [] node = ApplySuppression -> "Proceed to fulfill? (yes/no)"

\* the step a call is about, and whether the step taken is a call returning
IsCall(r) == r.op \in {"start", "resume"}
Returned(r) == IsCall(r) /\ r.out.status # "error"
StateOf(st, id) == StoreGet(st, STATE_NS, id)
MetaOf(st, id) == StoreGet(st, META_NS, id)

\* C1: after a start or resume call that returns a paused summary, on an
\* instance whose metadata status was not completed or aborted before the
\* call, the persisted metadata status is paused.
C1_PausedReturnPersistsPaused ==
    [][ ( /\ Returned(ret')
          /\ ret'.out.status = "paused"
          /\ ( Has(store, META_NS, ret'.instance_id)
               => MetaOf(store, ret'.instance_id).status \notin Terminal ) )
        => MetaOf(store', ret'.instance_id).status = "paused" ]_vars

\* C2: once the metadata status of an instance is completed or aborted it
\* keeps that very value in every later state.
C2_TerminalStatusIsFinal ==
    [][ \A id \in DOMAIN store[META_NS] :
          MetaOf(store, id).status \in Terminal
          => MetaOf(store', id).status = MetaOf(store, id).status ]_vars


\* the values each guard of the transition table matches
Matches(node, v) ==
    CASE node = ValidateRequest -> v \in {"yes", "no"}
      [] node = GatherClaimInfo -> Truthy(v)
      [] node = IdentifyAccounts -> v \in {"cancel", "hold", "suppress"}
      [] node = HoldRequest -> v \in {"resume", "abort"}
      [] node = ApplySuppression -> v \in {"yes", "no"}
\* the step the transition table names next for a value the guard matches
TableNext(node, v) ==
    CASE node = ValidateRequest -> IF v = "yes" THEN GatherClaimInfo ELSE CancelRequest
      [] node = GatherClaimInfo -> IdentifyAccounts
      [] node = IdentifyAccounts ->
            IF v = "cancel" THEN CancelRequest
            ELSE IF v = "hold" THEN HoldRequest ELSE ApplySuppression
      [] node = HoldRequest -> IF v = "resume" THEN ApplySuppression ELSE CancelRequest
      [] node = ApplySuppression -> IF v = "yes" THEN FulfillCase ELSE CancelRequest

\* a resume call on an existing instance is the step being taken
ResumeStep == resumes' # resumes
EventsOf(st, id) == history(st, id)

\* C4: resume with empty updates changes neither the bag nor last_node (in
\* the execution state and in the metadata), appends no steps_history entry
\* and, after a paused call, returns paused with the same prompt.
C4_EmptyResumeIsIdempotent ==
    [][ (ResumeStep /\ DOMAIN ret'.updates = {})
        => LET id == ret'.instance_id
           IN  /\ StateOf(store', id).bag = StateOf(store, id).bag
               /\ Get(StateOf(store', id).meta, "last_node")
                    = Get(StateOf(store, id).meta, "last_node")
               /\ MetaOf(store', id).last_node = MetaOf(store, id).last_node
               /\ MetaOf(store', id).steps_history = MetaOf(store, id).steps_history
               /\ ( lastOut[id].status = "paused"
                    => /\ ret'.out.status = "paused"
                       /\ ret'.out.prompt = lastOut[id].prompt ) ]_vars
C4_Witness ==
    /\ ret.op = "resume"
    /\ DOMAIN ret.updates = {}
    /\ ret.out.status = "paused"
    /\ Len(ret.path) >= 2

\* C5: every run starts at Validate Request and follows the transition
\* table; a run that pauses does so at the first step of its path whose key
\* is absent from the bag, with that step's prompt, and leaves that step as
\* last_node of the metadata; a step whose key is present never pauses.
C5_RunFastForwardsToFirstMissingKey ==
    Returned(ret)
    => LET id == ret.instance_id
           bag == StateOf(store, id).bag
           path == ret.path
           n == Last(path)
       IN  /\ path[1] = ValidateRequest
           /\ \A i \in 1..(Len(path) - 1) :
                /\ path[i] \in HumanSteps
                /\ Required(path[i]) \in DOMAIN bag
                /\ Matches(path[i], bag[Required(path[i])])
                /\ path[i + 1] = TableNext(path[i], bag[Required(path[i])])
           /\ IF n \in HumanSteps /\ Required(n) \notin DOMAIN bag
              THEN /\ ret.out.status = "paused"
                   /\ ret.out.prompt = PromptOf(n)
                   /\ MetaOf(store, id).last_node = n
              ELSE ret.out.status # "paused"
C5_Witness ==
    /\ Returned(ret)
    /\ ret.out.status = "paused"
    /\ Last(ret.path) = HoldRequest
    /\ "proceed_fulfill" \in DOMAIN StateOf(store, ret.instance_id).bag

\* C6: a start call creates an execution state with an empty bag and
\* meta.status in_progress, returns paused with the Validate Request prompt
\* and leaves last_node at Validate Request.
C6_StartPausesAtValidateRequest ==
    ret.op = "start"
    => LET id == ret.instance_id
       IN  /\ ret.out = [status |-> "paused", prompt |-> "Validate request? (yes/no)",
                         instance_id |-> id]
           /\ StateOf(store, id).bag = EmptyDict
           /\ StateOf(store, id).meta["status"] = "in_progress"
           /\ Get(StateOf(store, id).meta, "last_node") = ValidateRequest
           /\ MetaOf(store, id).last_node = ValidateRequest
C6_Witness ==
    /\ ret.op = "start"
    /\ ret.instance_id = 2
    /\ StateOf(store, 1).bag # EmptyDict

\* C7: steps_history never holds two consecutive entries with the same node.
C7_NoConsecutiveDuplicateNodes ==
    \A id \in DOMAIN store[META_NS] :
        LET h == MetaOf(store, id).steps_history
        IN  \A i \in 1..(Len(h) - 1) : h[i].node # h[i + 1].node
C7_Witness ==
    /\ ret.op = "resume"
    /\ Has(store, META_NS, ret.instance_id)
    /\ MetaOf(store, ret.instance_id).status \in Terminal
    /\ Len(MetaOf(store, ret.instance_id).steps_history) = 2
    /\ Len(EventsOf(store, ret.instance_id)) = 6

\* C8: resume on an id with no persisted execution state fails with
\* NotFound and leaves the whole store as it was.
C8_ResumeUnknownWritesNothing ==
    [][ (ret'.op = "resume" /\ ~Has(store, STATE_NS, ret'.instance_id))
        => /\ ret'.out = [status |-> "error", error |-> "No workflow found"]
           /\ store' = store ]_vars
C8_Witness ==
    /\ ret.op = "resume"
    /\ ret.out.status = "error"
    /\ ~Has(store, STATE_NS, ret.instance_id)
    /\ Has(store, STATE_NS, 1)


\* C3: when every resume supplied exactly the key of the step the instance
\* was paused at, with a value the transition table lists, a call that does
\* not pause returns completed from Fulfill or aborted from Cancel, with the
\* matching result and metadata status, and nothing else.
C3_InOrderRunsEndCompletedOrAborted ==
    \A id \in DOMAIN lastOut :
        (inOrder[id] /\ lastOut[id].status # "paused")
        => \/ /\ lastOut[id] = [status |-> "completed", node |-> FulfillCase,
                                result |-> "Fulfilled and detection complete.",
                                instance_id |-> id]
              /\ MetaOf(store, id).status = "completed"
           \/ /\ lastOut[id] = [status |-> "aborted", node |-> CancelRequest,
                                result |-> "Workflow aborted.", instance_id |-> id]
              /\ MetaOf(store, id).status = "aborted"

\* C9: every start call that has returned left its id in the instance
\* index, and the index lists no id twice, also when start calls overlap.
StartReturned(id) == Has(store, STATE_NS, id) /\ id \notin DOMAIN starting
C9_IndexHoldsEveryStartedInstance ==
    LET idx == IndexList(store)
    IN  /\ \A id \in InstanceIds : StartReturned(id) => id \in Range(idx)
        /\ \A i, j \in 1..Len(idx) : idx[i] = idx[j] => i = j

\* the steps of a run at which the key is in the bag with a value the guard
\* of the step does not match
UnmatchedSteps(path, bag) ==
    { n \in Range(path) \cap HumanSteps :
        Required(n) \in DOMAIN bag /\ ~Matches(n, bag[Required(n)]) }

C11_GatherProceedsWhenKeyPresent ==
    Returned(ret)
    => LET bag == StateOf(store, ret.instance_id).bag
       IN  \A i \in 1..Len(ret.path) :
             (ret.path[i] = GatherClaimInfo /\ "claim_details" \in DOMAIN bag)
             => /\ i < Len(ret.path)
                /\ ret.path[i + 1] = IdentifyAccounts

\* C12: a resume call merges updates into the bag by overwrite: afterwards
\* every key of updates holds its new value, every other key of the previous
\* bag holds its previous value and no key of the previous bag is missing;
\* only the key result may be added or overwritten by the run.
C12_ResumeMergesByOverwrite ==
    [][ ResumeStep
        => LET id == ret'.instance_id
               old == StateOf(store, id).bag
               new == StateOf(store', id).bag
               u == ret'.updates
           IN  /\ DOMAIN old \subseteq DOMAIN new
               /\ DOMAIN new \subseteq DOMAIN old \cup DOMAIN u \cup {"result"}
               /\ \A k \in DOMAIN u \ {"result"} : new[k] = u[k]
               /\ \A k \in DOMAIN old \ (DOMAIN u \cup {"result"}) : new[k] = old[k] ]_vars
C12_Witness ==
    /\ ret.op = "resume"
    /\ ret.updates = [validate |-> "no"]
    /\ LET bag == StateOf(store, ret.instance_id).bag
       IN  /\ bag["validate"] = "no"
           /\ "claim_details" \in DOMAIN bag
           /\ "process_decision" \in DOMAIN bag

\* a resume call in progress takes the step that leaves `pc`
Leaves(c, pc) ==
    /\ At(c, pc)
    /\ c \in DOMAIN resuming' => resuming'[c].pc # pc

\* C13: every write of the execution state by a resume call (lines 291 and
\* 311 / 337) persists the bag the call read at line 281 with its own
\* updates merged in, the run adding only the key result: whatever another
\* call wrote between that read and this write is overwritten, so its
\* update is lost.
C13_StateWriteIsReadBagPlusUpdates ==
    [][ \A c \in Callers :
          (Leaves(c, "state_put") \/ Leaves(c, "invoke"))
          => LET call == resuming[c]
                 merged == DictUpdate(call.read, call.updates)
                 new == StateOf(store', call.instance_id).bag
             IN  /\ DOMAIN merged \subseteq DOMAIN new
                 /\ DOMAIN new \subseteq DOMAIN merged \cup {"result"}
                 /\ \A k \in DOMAIN merged \ {"result"} : new[k] = merged[k] ]_vars
\* both calls have returned and the bag lacks a key one of them sent
C13_Witness ==
    /\ resuming = EmptyDict
    /\ \E id \in DOMAIN store[STATE_NS] :
         \E i \in 1..Len(EventsOf(store, id)) :
           LET e == EventsOf(store, id)[i]
           IN  /\ e.event = "resume_command"
               /\ \E k \in DOMAIN e.data.updates : k \notin DOMAIN StateOf(store, id).bag

IsPrefix(a, b) == Len(a) <= Len(b) /\ SubSeq(b, 1, Len(a)) = a

\* C14: the event log of each instance is append-only at every step, also
\* when calls on the instance overlap: the list persisted before the step is
\* a prefix of the list persisted after it.
C14_EventLogAppendOnly ==
    [][ \A id \in DOMAIN store[EVENTS_NS] :
          IsPrefix(EventsOf(store, id), EventsOf(store', id)) ]_vars

\* C15: steps_history of each instance is only appended to at every step,
\* also when calls on the instance overlap: its length never decreases and
\* the history persisted before the step is a prefix of the one after it.
C15_StepsHistoryAppendOnly ==
    [][ \A id \in DOMAIN store[META_NS] :
          IsPrefix(MetaOf(store, id).steps_history, MetaOf(store', id).steps_history) ]_vars

\* C16: a request to the human-step endpoint is rejected with 404 when the
\* instance has no metadata and with 400 when its last_node is outside the
\* allow-list, and then nothing in the store changes; the request reaches
\* engine.resume exactly when last_node is in the allow-list.
C16_EndpointRejectsOutsideAllowList ==
    [][ ret'.op = "human_step"
        => LET id == ret'.instance_id
           IN  /\ ~Has(store, META_NS, id) => (ret'.http = 404 /\ store' = store)
               /\ ( Has(store, META_NS, id)
                    /\ MetaOf(store, id).last_node \notin AllowedSteps )
                  => (ret'.http = 400 /\ store' = store)
               /\ ( Has(store, META_NS, id)
                    /\ MetaOf(store, id).last_node \in AllowedSteps )
                  => ( /\ ret'.http = 200
                       /\ store' = resume(store, id, ret'.actor, ret'.updates).st ) ]_vars
\* a request rejected with 400 on an instance that is at a step not allowed
C16_Witness ==
    /\ ret.op = "human_step"
    /\ ret.http = 400
    /\ MetaOf(store, ret.instance_id).last_node = IdentifyAccounts
    /\ "claim_details" \in DOMAIN ret.updates

\* C17: the pending-human listing holds exactly the instances whose last
\* start or resume call returned paused at Validate Request or Gather Claim
\* Info and that had not completed or aborted.
C17_PendingListsPausedHumanSteps ==
    /\ pending_human_steps(store) \subseteq DOMAIN lastOut
    /\ \A id \in DOMAIN lastOut :
         id \in pending_human_steps(store)
         <=> /\ lastOut[id].status = "paused"
             /\ MetaOf(store, id).last_node \in AllowedSteps
             /\ StateOf(store, id).meta["status"] \notin Terminal

\* the event kind that reports a returned status
OutcomeKind(status) == IF status = "in_progress" THEN "progressed" ELSE status
OutcomeKinds == {"paused", "completed", "aborted", "progressed"}
\* created, outcome, (resume_command, outcome)*
WellFormedLog(log) ==
    /\ Len(log) % 2 = 0
    /\ \A i \in 1..Len(log) :
         IF i = 1 THEN log[i].event = "created"
         ELSE IF i % 2 = 1 THEN log[i].event = "resume_command"
         ELSE log[i].event \in OutcomeKinds

\* C18: a start call appends one created event and then one outcome event;
\* a resume call that finds its instance appends one resume_command event
\* and then one outcome event; the outcome event's kind is the status the
\* call returns (progressed for in_progress). With calls that do not
\* overlap every log reads created, outcome, (resume_command, outcome)*.
C18_EventsPerCall ==
    [][ /\ ret'.op = "start"
           => LET log == EventsOf(store', ret'.instance_id)
              IN  /\ Len(log) = 2
                  /\ log[1].event = "created"
                  /\ log[2].event = OutcomeKind(ret'.out.status)
        /\ ResumeStep
           => LET old == EventsOf(store, ret'.instance_id)
                  log == EventsOf(store', ret'.instance_id)
              IN  /\ Len(log) = Len(old) + 2
                  /\ IsPrefix(old, log)
                  /\ log[Len(old) + 1].event = "resume_command"
                  /\ log[Len(old) + 1].data = [updates |-> ret'.updates]
                  /\ log[Len(old) + 2].event = OutcomeKind(ret'.out.status)
        /\ \A id \in DOMAIN store'[STATE_NS] : WellFormedLog(EventsOf(store', id)) ]_vars
C18_Witness ==
    /\ ret.op = "resume"
    /\ LET log == EventsOf(store, ret.instance_id)
       IN  /\ Len(log) = 6
           /\ log[2].event = "paused"
           /\ log[4].event = "progressed"
           /\ log[6].event = "completed"

C20_EveryRunTerminates ==
    /\ [](\A i, j \in 1..Len(traversal.path) :
            traversal.path[i] = traversal.path[j] => i = j)
    /\ [](traversal.end = "running" => traversal.node \notin Range(traversal.path))
    /\ <>(traversal.end \in {"paused", "terminal", "unmatched"})
C20_Witness ==
    /\ traversal.end = "terminal"
    /\ traversal.path = <<ValidateRequest, GatherClaimInfo, IdentifyAccounts, HoldRequest,
                          ApplySuppression, FulfillCase>>

TerminalEvents(log) == {i \in 1..Len(log) : log[i].event \in Terminal}

\* C21: the event log of an instance holds at most one completed or
\* aborted event, whatever start and resume calls were made, resume calls
\* on an instance that has reached Cancel or Fulfill included.
C21_AtMostOneTerminalEvent ==
    \A id \in DOMAIN store[EVENTS_NS] :
        Cardinality(TerminalEvents(EventsOf(store, id))) <= 1

\* the instances no call is working on
Quiescent(id) ==
    /\ id \notin DOMAIN starting
    /\ \A c \in DOMAIN resuming : resuming[c].instance_id # id

\* C22: when a start or resume call has returned and no call on the
\* instance is in progress, the metadata's last_node is the persisted
\* state's meta.last_node and the metadata's status is the persisted
\* state's meta.status or paused.
C22_ProjectionConsistent ==
    \A id \in DOMAIN lastOut :
        Quiescent(id)
        => /\ MetaOf(store, id).last_node = Get(StateOf(store, id).meta, "last_node")
           /\ \/ MetaOf(store, id).status = Get(StateOf(store, id).meta, "status")
              \/ MetaOf(store, id).status = "paused"

StepsHistoryOf(st, id) ==
    IF Has(st, META_NS, id) THEN MetaOf(st, id).steps_history ELSE <<>>

\* C23: in every persisted metadata last_node is unset exactly when
\* steps_history is empty, and otherwise the last entry's node is
\* last_node; a call adds at most one entry, for the step its run ended
\* at, never for a step the run passed through.
C23_HistoryRecordsRunEnds ==
    [][ /\ \A id \in DOMAIN store'[META_NS] :
             LET m == MetaOf(store', id)
             IN  /\ m.last_node = None <=> m.steps_history = <<>>
                 /\ m.steps_history # <<>> => Last(m.steps_history).node = m.last_node
        /\ \A id \in InstanceIds :
             LET old == StepsHistoryOf(store, id)
                 new == StepsHistoryOf(store', id)
             IN  \/ new = old
                 \/ /\ Len(new) = Len(old) + 1
                    /\ IsPrefix(old, new)
                    /\ ret'.instance_id = id
                    /\ ret'.op # "none"
                    /\ ret'.out.status # "error"
                    /\ Last(new).node = Last(ret'.path) ]_vars
\* a metadata written by start before its run, and the history of an
\* instance whose last call passed through Gather Claim Info
C23_Witness ==
    /\ \E id \in DOMAIN store[META_NS] :
         /\ MetaOf(store, id).last_node = None
         /\ MetaOf(store, id).steps_history = <<>>
    /\ ret.op = "resume"
    /\ ret.path = <<ValidateRequest, GatherClaimInfo, IdentifyAccounts>>
    /\ LET h == MetaOf(store, ret.instance_id).steps_history
       IN  /\ Len(h) = 2
           /\ h[1].node = ValidateRequest
           /\ h[2].node = IdentifyAccounts

\* C24: the human-step endpoint never merges a request's updates into the
\* bag of an instance whose last_node, when the merge is applied, is
\* outside {Gather Claim Info, Validate Request}, however its requests
\* interleave with direct resume calls on the same instance.
C24_EndpointMergesOnlyAtAllowedSteps ==
    [][ \A c \in Callers :
          Leaves(c, "checked")
          => MetaOf(store, resuming[c].instance_id).last_node \in AllowedSteps ]_vars

====
